---- MODULE Spec2Model ----
(***************************************************************************)
(* Model of the kmyth SGX 'retrieve key demo' TLS utilities                *)
(* (sgx/demo/src/util/demo_tls_util.c): the TLSPeer lifecycle              *)
(* (init, cleanup, context build, client/server configuration, connect /   *)
(* accept) and the length-prefixed message framing (send / receive).       *)
(*                                                                         *)
(* The OpenSSL objects (SSL_CTX, BIO chains) and the heap strings owned by *)
(* a TLSPeer are handles 1..MaxHandles; NULL is 0.  Every library call     *)
(* whose result the code tests is an input of the action that models the   *)
(* calling function: the action is enabled for each result the call can    *)
(* deliver.                                                                *)
(***************************************************************************)
EXTENDS Integers, Sequences, FiniteSets, TLC

\* ------------------------------------------------------------------ bounds
\* size of the handle pool (SSL_CTX, BIO and string allocations)
MaxHandles == 4
\* largest number of bytes in flight on the socket
MaxWire == 6

\* ------------------------------------------------------- program constants
NULL == 0
\* sizeof(msg->hdr): the header is one uint16_t (htons() / hdr_buf[0..1])
HdrSize == 2
\* ceiling on the body length; the header that defines it is not part of
\* the sources, the model uses a small ceiling
KMYTH_TLS_MAX_MSG_SIZE == 2
\* range of the uint16_t length field
UINT16_MAX == 65535

Handles == 1..MaxHandles
StrFields == {"host", "port", "ca_cert_path", "local_key_path",
              "local_cert_path"}

VARIABLES
  peer,      \* the TLSPeer structure
  nalloc,    \* number of handles allocated so far (handles 1..nalloc exist)
  hkind,     \* kind of each handle: "none","ctx","bio","sbio","abio","str"
  hfrees,    \* how many times each handle has been released
  hattach,   \* hattach[s] = b: BIO s is part of the chain freed with BIO b
  estab,     \* BIOs whose connect/accept + handshake has succeeded
  last,      \* the last step: the call (or event), its outcome, what it did
  wire,      \* bytes written to the socket and not yet read
  wstate,    \* the connection: "open", "closed" (orderly), "reset"
  msg,       \* the TLSMessage the last demo_tls_recv_msg() was given
  io,        \* byte counts of the last send / receive call
  sslinit,   \* how often the TLS library has set up its global tables
  hist       \* history of the connection: bodies sent and received

vars == <<peer, nalloc, hkind, hfrees, hattach, estab, last,
          wire, wstate, msg, io, sslinit, hist>>
lifeVars == <<peer, nalloc, hkind, hfrees, hattach, estab>>
frameVars == <<wire, wstate, msg, io>>

\* ---------------------------------------------------------------- helpers
\* a system call or allocation that the call did not make
NoCall == -2
\* the body pointer is NULL (msg.cap is the size of the buffer otherwise)
AllocNull == -1

\* the TLSMessage a caller hands to demo_tls_recv_msg(): a new, zeroed
\* structure for each call
FreshMsg == [msg_size |-> 0, cap |-> AllocNull, body |-> <<>>]

\* secure_memset(tlsconn, 0, sizeof(TLSPeer)); tlsconn->isClient = clientMode
BlankPeer(clientMode) ==
  [isClient |-> clientMode, ctx |-> NULL, bio |-> NULL, host |-> NULL,
   port |-> NULL, ca_cert_path |-> NULL, local_key_path |-> NULL,
   local_cert_path |-> NULL]

\* the settings of an SSL_CTX nothing has been applied to
NoCfg == [method |-> "none", min_proto |-> "none", verify |-> {},
          depth |-> 0, trust |-> {}, key |-> FALSE, cert |-> FALSE]

\* the history of a connection nothing has been sent on
NoHist == [sent |-> <<>>, rcvd |-> <<>>, clean |-> TRUE]

\* what a call reports: its name, the error it logs (or "OK"), whether it
\* attempted network I/O, whether it ran tls_get_verify_error(), and the
\* number of release calls (free / BIO_free_all / SSL_CTX_free) it made,
\* and the settings it applied to the SSL_CTX it created
Ret(op, res, netio, diag, released) ==
  [op |-> op, res |-> res, netio |-> netio, diag |-> diag,
   released |-> released, cfg |-> NoCfg]

\* what a send / receive call did: the msg_size it was called with (send),
\* the counts its header and body write() / read() returned, and the
\* result of its calloc(); NoCall for what it did not do
NoIo == [size |-> NoCall, hdrw |-> NoCall, bodyw |-> NoCall,
         hdrr |-> NoCall, bodyr |-> NoCall, alloc |-> NoCall]

\* the BIOs released by BIO_free_all(b): b and the BIOs attached to it
Chain(b) == {b} \cup {s \in Handles : hattach[s] = b}

\* the number of release calls demo_tls_cleanup() makes that reach handle h
CleanupReleases(p, h) ==
  Cardinality({f \in StrFields \cup {"ctx"} : p[f] = h})
  + (IF p.bio # NULL /\ h \in Chain(p.bio) THEN 1 ELSE 0)

\* the number of release calls demo_tls_cleanup() makes
CleanupCalls(p) ==
  Cardinality({f \in StrFields \cup {"ctx", "bio"} : p[f] # NULL})

\* faulty variants: the re-initialization sets the client role; there is no
\* re-initialization
CleanupReinit_Client(p) == BlankPeer(TRUE)
CleanupReinit_None(p) == p

\* the peer as demo_tls_cleanup() leaves it: demo_tls_init(false, tlsconn)
CleanupReinit(p) == BlankPeer(FALSE)

\* ------------------------------------------------------------------- Init
Init ==
  /\ peer \in {BlankPeer(TRUE), BlankPeer(FALSE)}
  /\ nalloc = 0
  /\ hkind = [h \in Handles |-> "none"]
  /\ hfrees = [h \in Handles |-> 0]
  /\ hattach = [h \in Handles |-> NULL]
  /\ estab = {}
  /\ last = Ret("demo_tls_init", "OK", FALSE, FALSE, 0)
  /\ wire = <<>>
  /\ wstate = "open"
  /\ msg = FreshMsg
  /\ io = NoIo
  /\ sslinit = 0
  /\ hist = NoHist

\* ------------------------------------------------------ lifecycle actions
\* demo_tls_init(): zeroes the structure (nothing is released) and sets
\* the role
DemoTlsInit ==
  \E clientMode \in BOOLEAN :
    /\ peer' = BlankPeer(clientMode)
    /\ last' = Ret("demo_tls_init", "OK", FALSE, FALSE, 0)
    /\ io' = NoIo
    /\ UNCHANGED <<nalloc, hkind, hfrees, hattach, estab, wire, wstate, msg,
                 hist, sslinit>>

\* demo_tls_cleanup(): releases every field that is not NULL, then
\* re-initializes the structure
DemoTlsCleanup ==
  /\ hfrees' = [h \in Handles |-> hfrees[h] + CleanupReleases(peer, h)]
  /\ peer' = CleanupReinit(peer)
  /\ last' = Ret("demo_tls_cleanup", "OK", FALSE, FALSE, CleanupCalls(peer))
  /\ estab' = {b \in estab : CleanupReleases(peer, b) = 0}
  /\ io' = NoIo
  /\ UNCHANGED <<nalloc, hkind, hattach, wire, wstate, msg, hist, sslinit>>

\* the application fills in a configuration string of the peer (strdup of
\* a command-line option); the setter is not part of the sources
CallerSetString ==
  \E f \in StrFields :
    /\ peer[f] = NULL
    /\ nalloc < MaxHandles
    /\ nalloc' = nalloc + 1
    /\ hkind' = [hkind EXCEPT ![nalloc + 1] = "str"]
    /\ peer' = [peer EXCEPT ![f] = nalloc + 1]
    /\ last' = Ret("set_string", "OK", FALSE, FALSE, 0)
    /\ io' = NoIo
    /\ UNCHANGED <<hfrees, hattach, estab, wire, wstate, msg, hist, sslinit>>

\* the results SSL_CTX_new() and BIO_new_accept() can deliver: NULL, or a
\* fresh handle while the pool has one
FreshOrNull == {NULL} \cup (IF nalloc < MaxHandles THEN {nalloc + 1} ELSE {})

\* the results BIO_new_ssl_connect(ctx) and BIO_new_ssl(ctx, 0) can deliver:
\* SSL_new() fails on a NULL context, so a NULL context gives NULL
NewSslBio(ctx) == IF ctx = NULL THEN {NULL} ELSE FreshOrNull

\* the heap after the allocation that delivered h (nothing if h is NULL)
KindAfter(kinds, h, k) == IF h = NULL THEN kinds ELSE [kinds EXCEPT ![h] = k]

\* the steps of demo_tls_config_ctx() that can fail after the context has
\* been stored in the peer, in program order, and the error each logs
CtxSteps(p) ==
  {"min_proto", "trust"}
  \cup (IF p.local_key_path # NULL THEN {"key"} ELSE {})
  \cup (IF p.local_cert_path # NULL THEN {"cert"} ELSE {})
CtxError(step) ==
  CASE step = "min_proto" -> "ProtoFloorFailed"
    [] step = "trust" -> "TrustStoreLoadFailed"
    [] step = "key" -> "LocalKeyLoadFailed"
    [] step = "cert" -> "LocalCertLoadFailed"
    [] OTHER -> "OK"

\* the order of the steps of demo_tls_config_ctx(); "ok" is its return 0
CtxOrder == <<"min_proto", "trust", "key", "cert", "ok">>
StepIndex(s) == CHOOSE i \in 1..Len(CtxOrder) : CtxOrder[i] = s
\* step s has been completed by a call that stopped at step stop
Done(s, stop) == StepIndex(s) < StepIndex(stop)

\* TLS_client_method() or TLS_server_method(), by the role
CtxMethod(p) ==
  IF p.isClient THEN "TLS_client_method" ELSE "TLS_server_method"

\* SSL_CTX_set_verify(tlsconn->ctx, SSL_VERIFY_PEER, NULL): the flags of
\* the verification mode
VerifyMode == {"SSL_VERIFY_PEER"}

\* SSL_CTX_set_verify_depth(tlsconn->ctx, 5)
VerifyDepth == 5

\* the trust anchors loaded: the custom CA file if a path is configured,
\* the default verify paths otherwise
CtxTrust(p) == IF p.ca_cert_path # NULL THEN {"custom"} ELSE {"default"}

\* the settings demo_tls_config_ctx() has applied to the new context when
\* it stops at step stop
CtxCfg(p, stop) ==
  [method |-> CtxMethod(p),
   min_proto |-> IF Done("min_proto", stop) THEN "TLS1_2_VERSION" ELSE "none",
   verify |-> IF Done("min_proto", stop) THEN VerifyMode ELSE {},
   depth |-> IF Done("min_proto", stop) THEN VerifyDepth ELSE 0,
   trust |-> IF Done("trust", stop) THEN CtxTrust(p) ELSE {},
   key |-> Done("key", stop) /\ p.local_key_path # NULL,
   cert |-> Done("cert", stop) /\ p.local_cert_path # NULL]

\* faulty variant: every call sets up the global tables again
EnsureInit_Repeat(n) == IF n < 2 THEN n + 1 ELSE n

\* SSL_load_error_strings(); SSL_library_init(): both are OPENSSL_init_ssl()
\* in the library versions that have TLS_client_method(), which sets up
\* the global tables on its first call only
EnsureInit(n) == IF n = 0 THEN 1 ELSE n

\* demo_tls_config_ctx(): tlsconn->ctx = SSL_CTX_new(method) is stored
\* before it is tested and before the context is configured
DemoTlsConfigCtx ==
  /\ sslinit' = EnsureInit(sslinit)
  /\ \/ \* TLS_client_method() / TLS_server_method() returns NULL
        /\ last' = Ret("demo_tls_config_ctx", "MethodFailed", FALSE, FALSE, 0)
        /\ UNCHANGED lifeVars
     \/ \E c \in FreshOrNull, step \in CtxSteps(peer) \cup {"ok"} :
          /\ peer' = [peer EXCEPT !.ctx = c]
          /\ nalloc' = IF c = NULL THEN nalloc ELSE c
          /\ hkind' = KindAfter(hkind, c, "ctx")
          /\ last' = [Ret("demo_tls_config_ctx",
                          IF c = NULL THEN "ContextCreationFailed"
                          ELSE CtxError(step), FALSE, FALSE, 0)
                      EXCEPT !.cfg = IF c = NULL THEN NoCfg
                                     ELSE CtxCfg(peer, step)]
          /\ UNCHANGED <<hfrees, hattach, estab>>
  /\ io' = NoIo
  /\ UNCHANGED <<wire, wstate, msg, hist>>

\* faulty variant: the role test is left out
ClientRoleMismatch_Off(p) == FALSE

\* the role test of demo_tls_config_client_connect(): TRUE when the call
\* is refused
ClientRoleMismatch(p) == ~p.isClient

\* faulty variant: the role test of the server configuration is left out
ServerRoleMismatch_Off(p) == FALSE

\* the role test of demo_tls_config_server_accept(): TRUE when the call is
\* refused
ServerRoleMismatch(p) == p.isClient

\* the steps of demo_tls_config_client_connect() that can fail after the
\* BIO chain has been stored in the peer, and the error each stands for
ConnSteps == {"port", "hostname", "get_ssl", "sni", "set1_host"}
ConnError(step) ==
  CASE step \in {"port", "hostname"} -> "EndpointConfigFailed"
    [] step = "get_ssl" -> "SessionAccessFailed"
    [] step = "sni" -> "SniConfigFailed"
    [] step = "set1_host" -> "HostVerificationConfigFailed"
    [] OTHER -> "OK"

\* demo_tls_config_client_connect(): tls_clnt->bio = BIO_new_ssl_connect()
\* is stored before it is tested and before the chain is configured
DemoTlsConfigClientConnect ==
  \/ /\ ClientRoleMismatch(peer)
     /\ last' = Ret("demo_tls_config_client_connect", "RoleMismatch",
                    FALSE, FALSE, 0)
     /\ io' = NoIo
     /\ UNCHANGED <<lifeVars, wire, wstate, msg, hist, sslinit>>
  \/ /\ ~ClientRoleMismatch(peer)
     /\ \E b \in NewSslBio(peer.ctx), step \in ConnSteps \cup {"ok"} :
          /\ peer' = [peer EXCEPT !.bio = b]
          /\ nalloc' = IF b = NULL THEN nalloc ELSE b
          /\ hkind' = KindAfter(hkind, b, "bio")
          /\ last' = Ret("demo_tls_config_client_connect",
                         IF b = NULL THEN "TransportCreationFailed"
                         ELSE ConnError(step), FALSE, FALSE, 0)
     /\ io' = NoIo
     /\ UNCHANGED <<hfrees, hattach, estab, wire, wstate, msg, hist, sslinit>>

\* demo_tls_config_server_accept(): the SSL BIO and the accept BIO are
\* locals; the accept BIO is stored in the peer only on success
DemoTlsConfigServerAccept ==
  \/ /\ ServerRoleMismatch(peer)
     /\ last' = Ret("demo_tls_config_server_accept", "RoleMismatch",
                    FALSE, FALSE, 0)
     /\ io' = NoIo
     /\ UNCHANGED <<lifeVars, wire, wstate, msg, hist, sslinit>>
  \/ /\ ~ServerRoleMismatch(peer)
     /\ \E sbio \in NewSslBio(peer.ctx) :
          IF sbio = NULL
          THEN \* BIO_get_ssl() leaves ssl NULL
               /\ last' = Ret("demo_tls_config_server_accept",
                              "SessionAccessFailed", FALSE, FALSE, 0)
               /\ UNCHANGED lifeVars
          ELSE \E abio \in {NULL} \cup
                           (IF sbio < MaxHandles THEN {sbio + 1} ELSE {}) :
                 IF abio = NULL
                 THEN \* BIO_new_accept() fails: sbio stays allocated
                      /\ nalloc' = sbio
                      /\ hkind' = [hkind EXCEPT ![sbio] = "sbio"]
                      /\ last' = Ret("demo_tls_config_server_accept",
                                     "ListenCreationFailed", FALSE, FALSE, 0)
                      /\ UNCHANGED <<peer, hfrees, hattach, estab>>
                 ELSE \E setup \in BOOLEAN :
                        \* BIO_set_accept_bios(abio, sbio); BIO_do_accept()
                        /\ nalloc' = abio
                        /\ hkind' = [hkind EXCEPT ![sbio] = "sbio",
                                                  ![abio] = "abio"]
                        /\ hattach' = [hattach EXCEPT ![sbio] = abio]
                        /\ peer' = IF setup THEN [peer EXCEPT !.bio = abio]
                                   ELSE peer
                        /\ last' = Ret("demo_tls_config_server_accept",
                                       IF setup THEN "OK"
                                       ELSE "ListenSetupFailed",
                                       TRUE, FALSE, 0)
                        /\ UNCHANGED <<hfrees, estab>>
     /\ io' = NoIo
     /\ UNCHANGED <<wire, wstate, msg, hist, sslinit>>

\* BIO_do_connect(bio) / BIO_do_accept(bio): both are BIO_do_handshake();
\* it fails on a NULL BIO and otherwise succeeds or fails as the network
\* and the certificate verification decide
HandshakeResults(b) == IF b = NULL THEN {FALSE} ELSE BOOLEAN

\* faulty variant: the failure is returned without the diagnostics call
VerifyErrorCalled_Never(ok) == FALSE

\* whether demo_tls_client_connect() / demo_tls_server_accept() call
\* tls_get_verify_error(), by the result of the handshake
VerifyErrorCalled(ok) == ~ok

\* demo_tls_client_connect() and demo_tls_server_accept(): run the
\* handshake; on failure log and call tls_get_verify_error(), which only
\* reads the peer
Handshake(op, err) ==
  \E ok \in HandshakeResults(peer.bio) :
    /\ estab' = IF ok THEN estab \cup {peer.bio} ELSE estab
    /\ last' = Ret(op, IF ok THEN "OK" ELSE err, peer.bio # NULL,
                   VerifyErrorCalled(ok), 0)
    /\ io' = NoIo
    /\ UNCHANGED <<peer, nalloc, hkind, hfrees, hattach, wire, wstate, msg,
                   hist, sslinit>>

DemoTlsClientConnect ==
  Handshake("demo_tls_client_connect", "ConnectOrVerifyFailed")

DemoTlsServerAccept ==
  Handshake("demo_tls_server_accept", "AcceptOrVerifyFailed")

\* the peer's transport has completed connect/accept and the handshake
Established == peer.bio # NULL /\ peer.bio \in estab

NextLife ==
  \/ DemoTlsInit
  \/ DemoTlsCleanup
  \/ CallerSetString
  \/ DemoTlsConfigCtx
  \/ DemoTlsConfigClientConnect
  \/ DemoTlsConfigServerAccept
  \/ DemoTlsClientConnect
  \/ DemoTlsServerAccept

\* ------------------------------------------------------- message framing
\* body bytes the sender puts in a message
BodyBytes == {0, 1}
\* bytes a sending end that does not run this code may put on the wire
RawBytes == {0, KMYTH_TLS_MAX_MSG_SIZE + 1}
\* values of msg->hdr.msg_size the sender is called with
SendSizes == 0..(KMYTH_TLS_MAX_MSG_SIZE + 1) \cup {UINT16_MAX}
\* the body buffers of a message of that size; a message send refuses is
\* never read, its body is left out
Bodies(size) ==
  IF size <= KMYTH_TLS_MAX_MSG_SIZE THEN [1..size -> BodyBytes] ELSE {<<>>}

Take(w, k) == SubSeq(w, 1, k)
Drop(w, k) == SubSeq(w, k + 1, Len(w))
Min(a, b) == IF a < b THEN a ELSE b
\* the bytes a read()/write() that returned k has transferred
Moved(k) == IF k > 0 THEN k ELSE 0
Zeros(n) == [i \in 1..n |-> 0]

\* uint16_t hdr_buf = htons(size), written from its first byte on: the
\* high byte, then the low byte
HdrEncode(size) == <<(size \div 256) % 256, size % 256>>

\* faulty variant: the shift is done in 8 bits, the high byte is lost
HdrDecode_Narrow(b0, b1) == (((b0 * 256) % 256) + b1) % 65536

\* msg->hdr.msg_size = hdr_buf[0] << 8; msg->hdr.msg_size += hdr_buf[1];
\* (uint16_t arithmetic)
HdrDecode(b0, b1) == (((b0 * 256) % 65536) + b1) % 65536

\* faulty variant: the test for an empty message is left out
SendSizeInvalid_NoZero(size) == size > KMYTH_TLS_MAX_MSG_SIZE

\* the size test of demo_tls_send_msg(): TRUE when the message is refused
SendSizeInvalid(size) == size > KMYTH_TLS_MAX_MSG_SIZE \/ size = 0

\* faulty variant: the ceiling test is off by one
RecvSizeTooLarge_OffByOne(size) == size > KMYTH_TLS_MAX_MSG_SIZE + 1

\* the size test of demo_tls_recv_msg(): TRUE when the header is refused
RecvSizeTooLarge(size) == size > KMYTH_TLS_MAX_MSG_SIZE

\* faulty variant: the end-of-stream test is left out
HdrReadClass_NoEof(n) == IF n # HdrSize THEN "ShortHeaderRead" ELSE "OK"

\* how demo_tls_recv_msg() classifies the count its header read returned
HdrReadClass(n) ==
  IF n = 0 THEN "ConnectionClosed"
  ELSE IF n # HdrSize THEN "ShortHeaderRead" ELSE "OK"

\* faulty variant: the body read is not tested for a count of 0
BodyReadClass_NoEof(n, size) == IF n # size THEN "ShortBodyRead" ELSE "OK"

\* faulty variant: the two failures of the body read are exchanged
BodyReadClass_Swapped(n, size) ==
  IF n = 0 THEN "ShortBodyRead"
  ELSE IF n # size THEN "ConnectionClosed" ELSE "OK"

\* how demo_tls_recv_msg() classifies the count its body read returned
BodyReadClass(n, size) ==
  IF n = 0 THEN "ConnectionClosed"
  ELSE IF n # size THEN "ShortBodyRead" ELSE "OK"

\* faulty variant: the count of the header write is not tested
HdrWriteClass_Ignore(n) == "OK"

\* how demo_tls_send_msg() classifies the counts its writes returned
HdrWriteClass(n) == IF n # HdrSize THEN "HeaderWriteFailed" ELSE "OK"
BodyWriteClass(n, size) == IF n # size THEN "BodyWriteFailed" ELSE "OK"

\* the counts write(fd, buf, n), n > 0, can return: -1 (error), or the
\* number of bytes accepted, which may be short; only errors once the
\* connection is gone
WriteResults(n) == IF wstate = "open" THEN {-1} \cup 1..n ELSE {-1}

\* the counts read(fd, buf, n) can return with w in the socket buffer:
\* -1 after a reset; 0 for n = 0; any count from 1 up to what is there
\* (a stream read returns what has arrived); 0 at end of stream; nothing
\* (the call blocks) on an open connection without data
ReadResults(w, n) ==
  IF wstate = "reset" THEN {-1}
  ELSE IF n = 0 THEN {0}
  ELSE IF w # <<>> THEN 1..Min(n, Len(w))
  ELSE IF wstate = "closed" THEN {0}
  ELSE {}

\* the results of calloc(n, 1): NULL or a buffer of n bytes
CallocResults(n) == {AllocNull, n}

\* demo_tls_send_msg(socket_fd, msg), on a socket whose buffer holds up to
\* cap bytes
SendMsg(cap) ==
  \E size \in SendSizes :
  \E body \in Bodies(size) :
    /\ IF SendSizeInvalid(size)
       THEN /\ last' = Ret("demo_tls_send_msg", "InvalidMessageSize",
                           FALSE, FALSE, 0)
            /\ io' = [NoIo EXCEPT !.size = size]
            /\ wire' = wire
       ELSE /\ Len(wire) + HdrSize + size <= cap
            /\ \E hw \in WriteResults(HdrSize) :
                 IF HdrWriteClass(hw) # "OK"
                 THEN /\ wire' = wire \o Take(HdrEncode(size), Moved(hw))
                      /\ last' = Ret("demo_tls_send_msg", HdrWriteClass(hw),
                                     TRUE, FALSE, 0)
                      /\ io' = [NoIo EXCEPT !.size = size, !.hdrw = hw]
                 ELSE \E bw \in WriteResults(size) :
                        /\ wire' = wire \o HdrEncode(size)
                                        \o Take(body, Moved(bw))
                        /\ last' = Ret("demo_tls_send_msg",
                                       BodyWriteClass(bw, size),
                                       TRUE, FALSE, 0)
                        /\ io' = [NoIo EXCEPT !.size = size, !.hdrw = hw,
                                           !.bodyw = bw]
    /\ UNCHANGED <<lifeVars, wstate, msg, sslinit>>

DemoTlsSendMsg == SendMsg(MaxWire) /\ UNCHANGED hist

\* demo_tls_recv_msg(socket_fd, msg)
RecvMsg ==
  /\ \E hr \in ReadResults(wire, HdrSize) :
       IF HdrReadClass(hr) # "OK"
       THEN /\ wire' = Drop(wire, Moved(hr))
            /\ msg' = FreshMsg
            /\ last' = Ret("demo_tls_recv_msg", HdrReadClass(hr),
                           TRUE, FALSE, 0)
            /\ io' = [NoIo EXCEPT !.hdrr = hr]
       ELSE LET size == HdrDecode(wire[1], wire[2])
                rest == Drop(wire, HdrSize)
            IN IF RecvSizeTooLarge(size)
               THEN /\ wire' = rest
                    /\ msg' = [FreshMsg EXCEPT !.msg_size = size]
                    /\ last' = Ret("demo_tls_recv_msg", "MessageTooLarge",
                                   TRUE, FALSE, 0)
                    /\ io' = [NoIo EXCEPT !.hdrr = hr]
               ELSE \E a \in CallocResults(size) :
                      IF a = AllocNull
                      THEN /\ wire' = rest
                           /\ msg' = [msg_size |-> size, cap |-> AllocNull,
                                      body |-> <<>>]
                           /\ last' = Ret("demo_tls_recv_msg", "AllocFailed",
                                          TRUE, FALSE, 0)
                           /\ io' = [NoIo EXCEPT !.hdrr = hr, !.alloc = a]
                      ELSE \E br \in ReadResults(rest, size) :
                             /\ wire' = Drop(rest, Moved(br))
                             /\ msg' = [msg_size |-> size, cap |-> a,
                                        body |-> Take(rest, Moved(br))
                                          \o Zeros(size - Moved(br))]
                             /\ last' = Ret("demo_tls_recv_msg",
                                            BodyReadClass(br, size),
                                            TRUE, FALSE, 0)
                             /\ io' = [NoIo EXCEPT !.hdrr = hr, !.alloc = a,
                                                   !.bodyr = br]
  /\ UNCHANGED <<lifeVars, wstate, sslinit>>

DemoTlsRecvMsg == RecvMsg /\ UNCHANGED hist

\* the sending end closes the connection (orderly shutdown): the receiver
\* reads what is left, then end of stream
RemoteClose ==
  /\ wstate = "open"
  /\ wstate' = "closed"
  /\ last' = Ret("remote_close", "OK", FALSE, FALSE, 0)
  /\ io' = NoIo
  /\ UNCHANGED <<lifeVars, wire, msg, sslinit, hist>>

\* the connection is reset: unread data is discarded, reads fail
RemoteReset ==
  /\ wstate # "reset"
  /\ wstate' = "reset"
  /\ wire' = <<>>
  /\ last' = Ret("remote_reset", "OK", FALSE, FALSE, 0)
  /\ io' = NoIo
  /\ UNCHANGED <<lifeVars, msg, sslinit, hist>>

\* a new connection replaces a finished one (the caller passes the
\* descriptor of another socket)
Reconnect ==
  /\ wstate # "open"
  /\ wstate' = "open"
  /\ wire' = <<>>
  /\ last' = Ret("reconnect", "OK", FALSE, FALSE, 0)
  /\ io' = NoIo
  /\ UNCHANGED <<lifeVars, msg, sslinit, hist>>

\* a sending end that does not run demo_tls_send_msg() writes one byte
RemoteRawWrite ==
  \E b \in RawBytes :
    /\ wstate = "open"
    /\ Len(wire) < MaxWire
    /\ wire' = Append(wire, b)
    /\ last' = Ret("remote_raw_write", "OK", FALSE, FALSE, 0)
    /\ io' = NoIo
    /\ UNCHANGED <<lifeVars, wstate, msg, sslinit, hist>>

NextFrame ==
  \/ DemoTlsSendMsg
  \/ DemoTlsRecvMsg
  \/ RemoteClose
  \/ RemoteReset
  \/ Reconnect
  \/ RemoteRawWrite

SpecLife == Init /\ [][NextLife]_vars

SpecFrame == Init /\ [][NextFrame]_vars

\* the lifecycle calls together with message exchange on a socket that
\* holds one message of one byte
SendOneByteMsg == SendMsg(HdrSize + 1) /\ UNCHANGED hist

NextExchange ==
  \/ DemoTlsInit
  \/ DemoTlsCleanup
  \/ DemoTlsConfigCtx
  \/ DemoTlsConfigClientConnect
  \/ DemoTlsConfigServerAccept
  \/ DemoTlsClientConnect
  \/ DemoTlsServerAccept
  \/ SendOneByteMsg
  \/ DemoTlsRecvMsg

SpecExchange == Init /\ [][NextExchange]_vars
\* ------------------------------------------------------ message ordering
\* largest number of messages sent on one connection
MaxMsgs == 2

\* a is an initial part of b
IsPrefix(a, b) == Len(a) <= Len(b) /\ SubSeq(b, 1, Len(a)) = a

\* demo_tls_send_msg() on a connection whose history is recorded: a
\* successful call adds the body it wrote (the bytes after its header) to
\* the messages sent; a failed call that has written part of a message
\* ends the clean history
LoggedSend ==
  /\ hist.clean
  /\ Len(hist.sent) < MaxMsgs
  /\ SendMsg(MaxWire)
  /\ hist' = IF last'.res = "OK"
             THEN [hist EXCEPT
                     !.sent = Append(@, Drop(wire', Len(wire) + HdrSize))]
             ELSE [hist EXCEPT !.clean = (wire' = wire)]

\* demo_tls_recv_msg() on that connection: a successful call adds the body
\* it returns to the messages received
LoggedRecv ==
  /\ RecvMsg
  /\ hist' = IF last'.res = "OK"
             THEN [hist EXCEPT !.rcvd = Append(@, msg'.body)]
             ELSE hist

NextOrder ==
  \/ LoggedSend
  \/ LoggedRecv

\* one end sends, the other receives, on one connection that stays open
SpecOrder == Init /\ [][NextOrder]_vars

\* ---------------------------------------------------------- header codec
\* the caller of demo_tls_send_msg() has stored any uint16_t value in
\* msg->hdr.msg_size
InitCodec ==
  /\ peer = BlankPeer(TRUE)
  /\ nalloc = 0
  /\ hkind = [h \in Handles |-> "none"]
  /\ hfrees = [h \in Handles |-> 0]
  /\ hattach = [h \in Handles |-> NULL]
  /\ estab = {}
  /\ last = Ret("set_msg_size", "OK", FALSE, FALSE, 0)
  /\ wire = <<>>
  /\ wstate = "open"
  /\ msg = FreshMsg
  /\ io \in {[NoIo EXCEPT !.size = L] : L \in 0..UINT16_MAX}
  /\ sslinit = 0
  /\ hist = NoHist

\* uint16_t hdr_buf = htons(msg->hdr.msg_size) and its complete write
EncodeHeader ==
  /\ last.op = "set_msg_size"
  /\ wire' = HdrEncode(io.size)
  /\ last' = Ret("htons", "OK", FALSE, FALSE, 0)
  /\ UNCHANGED <<lifeVars, wstate, msg, io, sslinit, hist>>

\* the two assignments to msg->hdr.msg_size after a complete header read
DecodeHeader ==
  /\ last.op = "htons"
  /\ msg' = [FreshMsg EXCEPT !.msg_size = HdrDecode(wire[1], wire[2])]
  /\ last' = Ret("hdr_decode", "OK", FALSE, FALSE, 0)
  /\ UNCHANGED <<lifeVars, wstate, wire, io, sslinit, hist>>

NextCodec ==
  \/ EncodeHeader
  \/ DecodeHeader

SpecCodec == InitCodec /\ [][NextCodec]_vars

\* ------------------------------------------------------------ properties
PeerFields == StrFields \cup {"ctx", "bio"}
IsSend == last.op = "demo_tls_send_msg"
IsRecv == last.op = "demo_tls_recv_msg"

\* C1: a successful send of a payload of length 1..KMYTH_TLS_MAX_MSG_SIZE on
\* an otherwise empty connection, followed by a receive (whose buffer
\* allocation does not fail), makes the receive succeed with exactly the
\* length and the bytes that were sent.
C1_RoundTrip ==
  [][(/\ IsSend /\ last.res = "OK"
      /\ wire = HdrEncode(io.size) \o Drop(wire, HdrSize)
      /\ Len(wire) = HdrSize + io.size
      /\ last'.op = "demo_tls_recv_msg"
      /\ io'.alloc # AllocNull)
     => (/\ last'.res = "OK"
         /\ msg'.msg_size = io.size
         /\ msg'.body = Drop(wire, HdrSize))]_vars

\* C2: demo_tls_config_client_connect() on a server-role peer, and
\* demo_tls_config_server_accept() on a client-role peer, report
\* RoleMismatch, allocate no handle, attempt no network I/O and leave the
\* peer as it was.
C2_RoleMismatch ==
  [][(\/ last'.op = "demo_tls_config_client_connect" /\ ~peer.isClient
      \/ last'.op = "demo_tls_config_server_accept" /\ peer.isClient)
     => (/\ last'.res = "RoleMismatch"
         /\ peer' = peer
         /\ nalloc' = nalloc /\ hkind' = hkind /\ hattach' = hattach
         /\ ~last'.netio)]_vars

\* a server-role peer that holds a context was refused by the client
\* configuration call
C2_Witness ==
  /\ last.op = "demo_tls_config_client_connect"
  /\ last.res = "RoleMismatch"
  /\ ~peer.isClient
  /\ peer.ctx # NULL

\* C3: a send called with length 0 or a length above the ceiling reports
\* InvalidMessageSize, makes no write() call and leaves the bytes on the
\* connection as they were.
C3_SendBoundary ==
  [][(/\ last'.op = "demo_tls_send_msg"
      /\ (io'.size = 0 \/ io'.size > KMYTH_TLS_MAX_MSG_SIZE))
     => (/\ last'.res = "InvalidMessageSize"
         /\ io'.hdrw = NoCall /\ io'.bodyw = NoCall
         /\ wire' = wire)]_vars

\* a send of length 0 was refused while the connection was open
C3_Witness ==
  /\ IsSend /\ io.size = 0 /\ last.res = "InvalidMessageSize"
  /\ wstate = "open"

\* C4: a receive whose complete header decodes to more than the ceiling
\* reports MessageTooLarge, makes no calloc() and no body read(), and has
\* consumed exactly the two header bytes.
C4_RecvBoundary ==
  [][(/\ last'.op = "demo_tls_recv_msg"
      /\ io'.hdrr = HdrSize
      /\ HdrDecode(wire[1], wire[2]) > KMYTH_TLS_MAX_MSG_SIZE)
     => (/\ last'.res = "MessageTooLarge"
         /\ io'.alloc = NoCall /\ io'.bodyr = NoCall
         /\ msg'.cap = AllocNull
         /\ wire' = Drop(wire, HdrSize))]_vars

\* a header declaring ceiling + 1 was refused with bytes left unread
C4_Witness ==
  /\ IsRecv /\ last.res = "MessageTooLarge"
  /\ msg.msg_size = KMYTH_TLS_MAX_MSG_SIZE + 1
  /\ wire # <<>>
\* C5 as stated: when the remote end has closed the connection with fewer
\* than two header bytes unread (none or one), a receive reports
\* ConnectionClosed.
C5_ClosedAlwaysConnectionClosed ==
  [][(/\ wstate = "closed" /\ Len(wire) < HdrSize
      /\ last'.op = "demo_tls_recv_msg")
     => last'.res = "ConnectionClosed"]_vars

\* C5 (amended): when the remote end has closed the connection with fewer
\* than two header bytes unread, a receive does not block, reports
\* ConnectionClosed if no header byte is there and ShortHeaderRead if one
\* is, allocates nothing and returns no message.
C5_ClosedDetection ==
  [][(wstate = "closed" /\ Len(wire) < HdrSize)
     => (/\ ENABLED DemoTlsRecvMsg
         /\ last'.op = "demo_tls_recv_msg"
            => (/\ last'.res = IF wire = <<>> THEN "ConnectionClosed"
                               ELSE "ShortHeaderRead"
                /\ io'.alloc = NoCall /\ io'.bodyr = NoCall
                /\ msg' = FreshMsg))]_vars

\* a receive met a connection closed after one header byte
C5_Witness ==
  /\ IsRecv /\ last.res = "ShortHeaderRead"
  /\ wstate = "closed" /\ io.hdrr = 1 /\ wire = <<>>

\* C6: a failed demo_tls_config_ctx(), demo_tls_config_client_connect()
\* or demo_tls_config_server_accept() leaves peer.ctx and peer.bio as they
\* were before the call.
C6_NoHandleRetained ==
  [][(/\ last'.op \in {"demo_tls_config_ctx",
                       "demo_tls_config_client_connect",
                       "demo_tls_config_server_accept"}
      /\ last'.res # "OK")
     => (peer'.ctx = peer.ctx /\ peer'.bio = peer.bio)]_vars

\* C7: in every reachable state of the lifecycle the peer holds a
\* transport only if it holds a context.
C7_ContextBeforeTransport == peer.bio # NULL => peer.ctx # NULL

\* C8: a send or a receive succeeds only while the peer's transport is
\* established (connect / accept has succeeded and the peer has not been
\* torn down since).
C8_EstablishedBeforeExchange ==
  ((IsSend \/ IsRecv) /\ last.res = "OK") => Established

\* C9 as stated: after demo_tls_cleanup() the peer is a blank client-role
\* peer.
C9_TeardownBlankClient ==
  last.op = "demo_tls_cleanup" => peer = BlankPeer(TRUE)

\* C9 (amended): after demo_tls_cleanup() the transport, the context, the
\* host, the port and the three paths are absent and isClient is false
\* (the blank peer has the server role).
C9_TeardownBlankServer ==
  last.op = "demo_tls_cleanup"
    => ((\A f \in PeerFields : peer[f] = NULL) /\ peer.isClient = FALSE)

\* a teardown released a transport, a context and at least one string
C9_Witness ==
  /\ last.op = "demo_tls_cleanup" /\ last.released >= 3
  /\ \E b \in Handles : hkind[b] \in {"bio", "abio"} /\ hfrees[b] = 1

\* the handles demo_tls_cleanup() has to release: those the fields of the
\* peer hold and the BIOs chained to the transport
Owned(p) ==
  ({p[f] : f \in PeerFields} \ {NULL})
  \cup {s \in Handles : p.bio # NULL /\ hattach[s] = p.bio}

\* C10: demo_tls_cleanup() releases each handle the peer owns once and no
\* other handle, and no handle is ever released twice, however often the
\* teardown is repeated.
C10_NoDoubleFree ==
  [][last'.op = "demo_tls_cleanup"
     => \A h \in Handles :
          /\ hfrees'[h] = hfrees[h] + (IF h \in Owned(peer) THEN 1 ELSE 0)
          /\ hfrees'[h] <= 1]_vars

\* a teardown found nothing to release on a peer whose handles an earlier
\* teardown had released
C10_Witness ==
  /\ last.op = "demo_tls_cleanup" /\ last.released = 0
  /\ \E h \in Handles : hkind[h] = "abio" /\ hfrees[h] = 1

\* C11: when demo_tls_config_client_connect() or
\* demo_tls_config_server_accept() stores a transport in a peer that
\* already holds one, the one it replaces is released (so that a teardown
\* at the end leaves no transport unreleased).
C11_ReplaceWithoutLeak ==
  [][(/\ last'.op \in {"demo_tls_config_client_connect",
                       "demo_tls_config_server_accept"}
      /\ peer.bio # NULL /\ peer'.bio # NULL /\ peer'.bio # peer.bio)
     => hfrees'[peer.bio] = hfrees[peer.bio] + 1]_vars

\* C12: whenever demo_tls_recv_msg() has written the TLSMessage it was
\* given (it read a complete header), whether it then succeeds or fails,
\* the length field is neither 0 nor above KMYTH_TLS_MAX_MSG_SIZE, and a
\* body buffer the message holds was allocated with exactly that many
\* bytes.
C12_MessageInvariant ==
  (IsRecv /\ io.hdrr = HdrSize)
    => (/\ msg.msg_size >= 1
        /\ msg.msg_size <= KMYTH_TLS_MAX_MSG_SIZE
        /\ (msg.cap # AllocNull => msg.cap = msg.msg_size))

\* C13: on a connection that carries only messages written by successful
\* demo_tls_send_msg() calls, the bodies the successful
\* demo_tls_recv_msg() calls return are, in order, the first of the bodies
\* sent: no byte of one message is attributed to another.
C13_Ordering == hist.clean => IsPrefix(hist.rcvd, hist.sent)

\* C14: for every length L in 0..65535 the header written is the byte
\* pair (L div 256, L mod 256), high byte first, and the header bytes
\* (b0, b1) are decoded as b0 * 256 + b1 with no overflow or truncation
\* of the 16-bit length, so that decoding the encoded header yields L.
C14_WireFormat ==
  /\ last.op \in {"htons", "hdr_decode"}
       => wire = <<io.size \div 256, io.size % 256>>
  /\ last.op = "hdr_decode"
       => /\ msg.msg_size = wire[1] * 256 + wire[2]
          /\ msg.msg_size = io.size

\* the largest length has been encoded as 0xFF 0xFF and decoded
C14_Witness ==
  /\ last.op = "hdr_decode"
  /\ io.size = UINT16_MAX
  /\ wire = <<255, 255>>

\* the verification mode makes the handshake fail unless the other end
\* presents a certificate that verifies: SSL_VERIFY_PEER does so on the
\* client side; on the server side it only requests a certificate, and a
\* client that sends none is accepted unless
\* SSL_VERIFY_FAIL_IF_NO_PEER_CERT is set as well
PeerVerificationMandatory(p, mode) ==
  /\ "SSL_VERIFY_PEER" \in mode
  /\ ~p.isClient => "SSL_VERIFY_FAIL_IF_NO_PEER_CERT" \in mode

\* C15: when demo_tls_config_ctx() returns success the peer holds a
\* context that was created with the method of its role and configured
\* with a minimum protocol version of TLS 1.2, mandatory peer verification
\* with depth 5 and exactly one trust source (the custom CA file if a path
\* is configured, otherwise the default store), and with each configured
\* key and certificate loaded; a key or certificate load failure is
\* reported only when the path is configured.
C15_BuildContextPost ==
  /\ (last.op = "demo_tls_config_ctx" /\ last.res = "OK")
       => /\ peer.ctx # NULL
          /\ last.cfg.method = CtxMethod(peer)
          /\ last.cfg.min_proto = "TLS1_2_VERSION"
          /\ PeerVerificationMandatory(peer, last.cfg.verify)
          /\ last.cfg.depth = 5
          /\ last.cfg.trust = (IF peer.ca_cert_path # NULL
                               THEN {"custom"} ELSE {"default"})
          /\ last.cfg.key = (peer.local_key_path # NULL)
          /\ last.cfg.cert = (peer.local_cert_path # NULL)
  /\ (last.op = "demo_tls_config_ctx" /\ last.res = "LocalKeyLoadFailed")
       => peer.local_key_path # NULL
  /\ (last.op = "demo_tls_config_ctx" /\ last.res = "LocalCertLoadFailed")
       => peer.local_cert_path # NULL

\* C16: in demo_tls_recv_msg() a header read that returns 0 is reported as
\* ConnectionClosed and one that returns any other count than 2 (short
\* read or error) as ShortHeaderRead; after a complete header a body read
\* that returns 0 is reported as ConnectionClosed and one that returns any
\* other count than the declared length as ShortBodyRead; the failed read
\* is the last one the call makes (nothing more is consumed), and the call
\* reports success only when both reads were complete.
C16_ShortReadClass ==
  [][last'.op = "demo_tls_recv_msg"
     => (/\ io'.hdrr = 0 => last'.res = "ConnectionClosed"
         /\ io'.hdrr \notin {0, HdrSize} => last'.res = "ShortHeaderRead"
         /\ io'.hdrr # HdrSize
              => (/\ io'.alloc = NoCall /\ io'.bodyr = NoCall
                  /\ wire' = Drop(wire, Moved(io'.hdrr)))
         /\ io'.bodyr # NoCall
              => (/\ io'.hdrr = HdrSize
                  /\ io'.bodyr = 0 => last'.res = "ConnectionClosed"
                  /\ io'.bodyr \notin {0, msg'.msg_size}
                       => last'.res = "ShortBodyRead"
                  /\ wire' = Drop(wire, HdrSize + Moved(io'.bodyr)))
         /\ last'.res = "OK"
              => (/\ io'.hdrr = HdrSize
                  /\ io'.bodyr = msg'.msg_size /\ io'.bodyr # 0))]_vars

\* a receive of a 2-byte message ended with ShortBodyRead after its body
\* read returned 1 byte
C16_Witness ==
  /\ IsRecv /\ last.res = "ShortBodyRead"
  /\ msg.msg_size = 2 /\ io.bodyr = 1

\* C17: for a message of valid length demo_tls_send_msg() writes the
\* 2-byte header first and the body after it; a header write that
\* transfers anything but 2 bytes is reported as HeaderWriteFailed and no
\* body write is made; a body write that transfers anything but the
\* length is reported as BodyWriteFailed; success is reported only when
\* both writes were complete.
C17_SendStepOrder ==
  [][(last'.op = "demo_tls_send_msg" /\ ~SendSizeInvalid(io'.size))
     => (/\ io'.hdrw # NoCall
         /\ io'.hdrw # HdrSize
              => (/\ last'.res = "HeaderWriteFailed"
                  /\ io'.bodyw = NoCall
                  /\ wire' = wire \o Take(HdrEncode(io'.size),
                                          Moved(io'.hdrw)))
         /\ io'.hdrw = HdrSize
              => (/\ io'.bodyw # NoCall
                  /\ Len(wire') = Len(wire) + HdrSize + Moved(io'.bodyw)
                  /\ SubSeq(wire', Len(wire) + 1, Len(wire) + HdrSize)
                       = HdrEncode(io'.size)
                  /\ io'.bodyw # io'.size => last'.res = "BodyWriteFailed")
         /\ last'.res = "OK"
              <=> (io'.hdrw = HdrSize /\ io'.bodyw = io'.size))]_vars

\* a send of a 2-byte message ended with BodyWriteFailed after its header
\* and one body byte were written
C17_Witness ==
  /\ IsSend /\ last.res = "BodyWriteFailed"
  /\ io.size = 2 /\ io.hdrw = HdrSize /\ io.bodyw = 1

\* C18: when demo_tls_client_connect() or demo_tls_server_accept() fails,
\* tls_get_verify_error() has been called before the failure is returned,
\* no field of the peer and no handle has changed (also when the peer has
\* no transport the SSL structure could be taken from), and the failure
\* is the one error of the call, whatever made the handshake fail.
C18_FailureDiagnosis ==
  [][(/\ last'.op \in {"demo_tls_client_connect", "demo_tls_server_accept"}
      /\ last'.res # "OK")
     => (/\ last'.diag
         /\ peer' = peer
         /\ nalloc' = nalloc /\ hkind' = hkind
         /\ hfrees' = hfrees /\ hattach' = hattach
         /\ estab' = estab
         /\ last'.res = (IF last'.op = "demo_tls_client_connect"
                         THEN "ConnectOrVerifyFailed"
                         ELSE "AcceptOrVerifyFailed"))]_vars

\* a connect failed on a peer that holds a context but no transport, and
\* the diagnostics ran
C18_Witness ==
  /\ last.op = "demo_tls_client_connect"
  /\ last.res = "ConnectOrVerifyFailed"
  /\ last.diag
  /\ peer.ctx # NULL /\ peer.bio = NULL

C20_ListenReleasesOnExit ==
  [][last'.op = "demo_tls_config_server_accept"
     => \A h \in (nalloc + 1)..nalloc' :
          h \in Owned(peer') \/ hfrees'[h] >= 1]_vars

\* C21: after any sequence of lifecycle calls, a peer whose transport was
\* made by demo_tls_config_client_connect() has the client role and a peer
\* whose transport is the accept BIO of demo_tls_config_server_accept()
\* has the server role; so a handshake that runs on the peer's transport
\* runs on one that was created for the role the peer has.
C21_RoleTransportConsistent ==
  peer.bio # NULL
    => (/\ hkind[peer.bio] \in {"bio", "abio"}
        /\ hkind[peer.bio] = "bio" => peer.isClient
        /\ hkind[peer.bio] = "abio" => ~peer.isClient)

\* demo_tls_server_accept() has run its handshake on the accept BIO of a
\* server-role peer
C21_Witness ==
  /\ last.op = "demo_tls_server_accept" /\ last.netio
  /\ peer.bio # NULL /\ hkind[peer.bio] = "abio"
  /\ ~peer.isClient

\* C22: when the two header bytes demo_tls_recv_msg() has read decode to
\* length 0, the call does not report success: it fails, reported as a
\* closed connection or as an allocation failure, also on a connection
\* that is still open, and the two header bytes are consumed.
C22_ZeroLengthHeader ==
  [][(/\ last'.op = "demo_tls_recv_msg"
      /\ io'.hdrr = HdrSize
      /\ HdrDecode(wire[1], wire[2]) = 0)
     => (/\ last'.res \in {"ConnectionClosed", "AllocFailed"}
         /\ msg'.msg_size = 0
         /\ wire' = Drop(wire, HdrSize))]_vars

\* a receive on an open connection read the header 00 00 and reported a
\* closed connection
C22_Witness ==
  /\ IsRecv /\ io.hdrr = HdrSize /\ io.bodyr = 0
  /\ msg.msg_size = 0
  /\ last.res = "ConnectionClosed"
  /\ wstate = "open"
====
